---- MODULE Spec2Model ----
(***************************************************************************)
(* The vendor advisory scripts (checkpoint_raw, okta_raw, jenkins_raw,     *)
(* fortinet_raw, fedora_raw, juniper_raw) as one state machine.  Each      *)
(* script is a program with a constant VENDOR_NAME that is run again and   *)
(* again (by the daily runner) against the shared vendor_staging_table.    *)
(* A behaviour is the life of the staging table under repeated runs of one *)
(* script; the portal, the network and the database are the environment    *)
(* and choose their answers nondeterministically.                          *)
(***************************************************************************)
EXTENDS Integers, FiniteSets, Sequences, TLC

\* ------------------------------------------------------------------ bounds
\* Document identities (source URLs) of the vendor's portal.
Names == {"A", "B", "C"}
\* Versions of a document's detail content the portal may serve.
MaxVersion == 2
Versions == 1..MaxVersion
\* Listing pages a portal serves before it runs out of them.
MaxPages == 3
\* size of the largest delta a fetch phase is given
MaxDelta == 12
\* documents of the delta in the model of the sessions of a run
MaxDocs == 2
\* length of the longest listing in the model of a listing with repeated entries
MaxEntries == 3
\* scripts the daily runner collects in the model of its loop
MaxScripts == 3
\* identities under the base URL of another vendor's portal
ForeignNames == {"X"}

\* --------------------------------------------------------- program constants
CHECK_POINT == "Check_point"
OKTA == "Okta"
JENKINS == "Jenkins"
FORTINET == "Fortinet Networks"
FEDORA == "Fedora"
JUNIPER == "Juniper"
Vendors == {CHECK_POINT, OKTA, JENKINS, FORTINET, FEDORA, JUNIPER}

NAV_RETRIES == 3
OKTA_MAX_WORKERS == 8
JENKINS_MAX_WORKERS == 10
FEDORA_MAX_WORKERS == 10

NoDoc == "none"
NoCount == {}

\* ------------------------------------------------------- per-script structure
\* The ON CONFLICT clause of the script's INSERT statement.
ConflictAction(v) == IF v \in {JENKINS, FORTINET} THEN "DO UPDATE" ELSE "DO NOTHING"

\* Mutant: the loop is range(1, NAV_RETRIES).
Attempts_OneLess(v) == IF v = CHECK_POINT THEN NAV_RETRIES - 1 ELSE 1

\* Mutant: every script's fetch sits in the retry loop.
Attempts_Loop(v) == NAV_RETRIES

\* Attempts the script's detail fetch makes for one document: the
\* range(1, NAV_RETRIES+1) loop of fetch_page_and_parse; every other script
\* calls its fetch function once per document, with no loop around it.
Attempts(v) == IF v = CHECK_POINT THEN NAV_RETRIES ELSE 1

\* Scripts whose main() opens one connection used for the lookup and the write.
MainConnection == {CHECK_POINT, OKTA, JENKINS, FEDORA}
\* Scripts that submit every detail fetch to a ThreadPoolExecutor at once.
Pooled == {OKTA, JENKINS, FEDORA}
\* Scripts that write the batch with one execute_values statement.
Bulk == {OKTA, JENKINS, FEDORA, FORTINET}
\* Scripts whose detail fetch is a plain requests.get / session.get.
PlainHttp == {OKTA, JENKINS, FEDORA, FORTINET}
\* Scripts whose discovery walks the listing page by page until a stop condition.
Paginated == {FORTINET, JENKINS}
\* Scripts that keep the listing's fields of a document in the staged record.
KeepsListingFields == {CHECK_POINT, FORTINET}

\* ------------------------------------------------------------------ values
RawData == [meta : BOOLEAN, detail : 0..MaxVersion]
Row == [vendor_name : Vendors, source_url : Names \cup ForeignNames, raw_data : RawData, processed : BOOLEAN]

NoResult == [st |-> "none", detail |-> 0]
\* The counts of the run report.  The scripts log the number discovered
\* (checkpoint, fedora), the number new (all but checkpoint) and the number
\* staged; no script has a log line for the other three.
NoReport == [discovered |-> NoCount, new |-> NoCount, staged |-> NoCount,
             skipped |-> NoCount, fetch_failed |-> NoCount, extract_failed |-> NoCount]

VARIABLES
    vendor,         \* VENDOR_NAME of the script
    store,          \* vendor_staging_table: the committed rows
    pc,             \* where main() is
    existing,       \* the existing-url set the run loaded
    lookupOk,       \* the lookup query of this run returned rows (not the fallback)
    listing,        \* identities the vendor's portal lists
    sk,             \* listed identities that carry a detail reference (skId)
    edition,        \* version of the detail content the portal serves now
    discovered,     \* identities the discovery of this run produced
    dispatched,     \* identities a detail fetch was dispatched for in this run
    result,         \* outcome of the fetch-and-extract per identity
    cur,            \* identity the sequential loop is working on
    attempt,        \* attempts made for the document fetched last (or being fetched)
    backoff,        \* the retry loop slept after the attempt made last
    onlyTransport,  \* every one of these attempts ended in a transport error
    txAborted,      \* the connection's transaction is in the failed state
    tx,             \* the rows as the open transaction sees them
    attempted,      \* identities whose INSERT was executed in this run
    wroteOk,        \* identities whose INSERT returned without raising
    inserted,       \* the script's counter of successful inserts
    failLog,        \* identities a failure message was logged for
    report,         \* the counts the run logged
    runStartStore,  \* the committed rows when this run began
    frontierChanged,\* no run has finished with the whole listing discovered, or
                    \* the portal's listing or content has changed since
    sameFrontier,   \* the run before this one finished, having discovered the
                    \* whole listing, and the portal is as it was then
    runner,         \* where the daily runner (jg.py) is with this script
    ret,            \* what the last call of run_script returned: a set of pairs
    status,         \* the STATUS write_matchable logged for the script
    poolState,      \* how the fetch phase runs: "none", "pool" or "loop"
    todo,           \* documents of the delta not yet submitted (or fetched, in a loop)
    queue,          \* work items in the executor's queue
    threads,        \* worker threads the executor has started
    running,        \* detail fetches in flight
    finished,       \* detail fetches that have returned
    alone,          \* the table as it would be had this script run alone
    aloneTx,        \* the open transaction's rows in that table
    foreignAlone,   \* the table as the other vendor's runs alone would leave it
    other,          \* VENDOR_NAME of the script that runs at the same time
    phase,          \* where the script is with the resources it holds
    connOpen,       \* a database connection was opened and not closed
    browserOpen,    \* a browser was launched and not closed
    setups,         \* browser sessions set up in this run
    setupFailed,    \* the launch of a browser (or its first navigation) raised
    deltaSize,      \* documents the loop of this run has to fetch
    fetched,        \* detail fetches made in this run
    stagedAny,      \* a record was written in this run
    entries,        \* the listing as discovery returned it, repeated entries kept
    work,           \* what the fetch loop still has to go through
    fetchCount,     \* detail fetches made, per identity
    insertCount,    \* INSERT statements executed, per identity
    jg,             \* where jg.py is
    scripts_to_run, \* how many scripts jg.py collected
    at,             \* the place in scripts_to_run of the script the loop is on
    execs,          \* per script, the success flags of the calls made for it
    log,            \* the lines of the daily log, in the order written
    success_scripts,\* the list of that name
    failed_scripts, \* the list of that name
    summary,        \* the two counts of the summary, once it is composed
    scanError,      \* a request for a listing page raised during the scan of this run
    page,           \* listing pages the scan of this run has requested (0: no scan)
    pageOld,        \* the page scanned last yielded no identity absent from existing
    pageStale       \* the page scanned last yielded identities, all seen earlier in the scan

vars == <<vendor, store, pc, existing, lookupOk, listing, sk, edition, discovered, dispatched,
          result, cur, attempt, onlyTransport, txAborted, tx, attempted, wroteOk,
          inserted, failLog, report, runStartStore, frontierChanged, sameFrontier,
          runner, ret, status, page, pageOld, pageStale,
          poolState, todo, queue, threads, running, finished,
          alone, aloneTx, foreignAlone, other, backoff, scanError,
          phase, connOpen, browserOpen, setups, setupFailed, deltaSize, fetched, stagedAny,
          entries, work, fetchCount, insertCount,
          jg, scripts_to_run, at, execs, log, success_scripts, failed_scripts, summary>>

\* The variables of jg.py.
runnerVars == <<runner, ret, status>>
\* The variables of a listing scan.
scanVars == <<page, pageOld, pageStale, scanError>>
\* the executor (or the loop) of the fetch phase
poolVars == <<poolState, todo, queue, threads, running, finished>>
\* the tables of the runs taken one at a time
sharedVars == <<alone, aloneTx, foreignAlone, other>>
\* the variables of the specifications of one part of a run, which the steps
\* of the whole run leave alone
\* the resources of a run
sessionVars == <<phase, connOpen, browserOpen, setups, setupFailed, deltaSize, fetched,
                 stagedAny>>
\* the fetch loop over a listing with repeated entries
dupVars == <<entries, work, fetchCount, insertCount>>
\* the loop of the daily runner over its scripts
jgVars == <<jg, scripts_to_run, at, execs, log, success_scripts, failed_scripts, summary>>
sideVars == <<poolVars, sessionVars, dupVars, jgVars>>

\* ------------------------------------------------------------ the database
\* Mutant: the lookup's SELECT matches no row.
SelectUrls_None(rows, v) == {}

\* SELECT source_url FROM vendor_staging_table WHERE vendor_name = %s
SelectUrls(rows, v) == {r.source_url : r \in {x \in rows : x.vendor_name = v}}

\* The processed column of a row whose INSERT names no value for it: the
\* column's default (the table's DDL is not in the scripts; the flag is
\* initially false).
ProcessedDefault == FALSE

\* The arbiter of ON CONFLICT (source_url): the rows the new row conflicts with.
Conflicting(rows, u) == {r \in rows : r.source_url = u}

\* Mutant: every script's statement ends in DO UPDATE.
InsertRow_Upsert(rows, v, u, raw, action) ==
    IF Conflicting(rows, u) = {}
    THEN rows \cup {[vendor_name |-> v, source_url |-> u, raw_data |-> raw,
                     processed |-> ProcessedDefault]}
    ELSE {IF r \in Conflicting(rows, u)
          THEN [r EXCEPT !.raw_data = raw, !.processed = FALSE]
          ELSE r : r \in rows}

\* Mutant: every script's statement ends in DO NOTHING.
InsertRow_FirstWins(rows, v, u, raw, action) ==
    IF Conflicting(rows, u) = {}
    THEN rows \cup {[vendor_name |-> v, source_url |-> u, raw_data |-> raw,
                     processed |-> ProcessedDefault]}
    ELSE rows

\* Mutant: the DO UPDATE clause sets processed = TRUE.
InsertRow_MarksProcessed(rows, v, u, raw, action) ==
    IF Conflicting(rows, u) = {}
    THEN rows \cup {[vendor_name |-> v, source_url |-> u, raw_data |-> raw,
                     processed |-> ProcessedDefault]}
    ELSE IF action = "DO NOTHING"
         THEN rows
         ELSE {IF r \in Conflicting(rows, u)
               THEN [r EXCEPT !.raw_data = raw, !.processed = TRUE]
               ELSE r : r \in rows}

\* INSERT INTO vendor_staging_table (vendor_name, source_url, raw_data)
\* VALUES (...) ON CONFLICT (source_url) DO NOTHING | DO UPDATE SET
\* raw_data = EXCLUDED.raw_data, processed = FALSE
InsertRow(rows, v, u, raw, action) ==
    IF Conflicting(rows, u) = {}
    THEN rows \cup {[vendor_name |-> v, source_url |-> u, raw_data |-> raw,
                     processed |-> ProcessedDefault]}
    ELSE IF action = "DO NOTHING"
         THEN rows
         ELSE {IF r \in Conflicting(rows, u)
               THEN [r EXCEPT !.raw_data = raw, !.processed = FALSE]
               ELSE r : r \in rows}

\* execute_values: the statement applied to every tuple of the batch
\* (raws is a function from the batch's identities to their raw_data).
RECURSIVE InsertAll(_, _, _, _, _)
InsertAll(rows, v, batch, raws, action) ==
    IF batch = {}
    THEN rows
    ELSE LET u == CHOOSE x \in batch : TRUE
         IN  InsertAll(InsertRow(rows, v, u, raws[u], action), v, batch \ {u}, raws, action)


\* ------------------------------------------------------------ run helpers
\* Mutant: the existing identities are not filtered out.
Delta_NoFilter(found, have) == found

\* urls_to_fetch: discovered minus existing (okta_raw.py:96, jenkins_raw.py:104,
\* fedora_raw.py:89, fortinet_raw.py:131, juniper_raw.py:191; in checkpoint_raw.py
\* the loop's "if src in existing: continue").
Delta(found, have) == found \ have

\* Identities of the delta the run has not finished fetching.
Pending == {u \in Delta(discovered, existing) : result[u].st = "none"}

\* raw_data of the record the script builds for u from a fetch outcome.
RawOf(v, res) == [meta |-> (v \in KeepsListingFields), detail |-> res.detail]

\* Mutant: every script appends whatever its fetch returned.
BatchOf_All(v, found, have, res) == Delta(found, have)

\* The records the script hands to its INSERT: Fortinet appends whatever
\* scrape_detail returned; the others keep the truthy / error-free results.
BatchOf(v, found, have, res) ==
    IF v = FORTINET
    THEN Delta(found, have)
    ELSE {u \in Delta(found, have) : res[u].st = "ok"}

\* Does the script log a message naming the document when an attempt fails?
LogsFailure(v, outcome) ==
    CASE v = CHECK_POINT -> outcome \in {"transport", "marker"}
      [] v = OKTA        -> TRUE
      [] v = JENKINS     -> outcome = "transport"
      [] v = FEDORA      -> FALSE
      [] v = FORTINET    -> TRUE
      [] v = JUNIPER     -> TRUE

\* "blank": the page came and was parsed without an error, and it has neither
\* an h1 nor an h3 element; "error": the fetch raised an
\* exception that is not a requests.RequestException.
Outcomes(v) ==
    CASE v = CHECK_POINT -> {"ok", "transport", "extract", "marker"}
      [] v = OKTA        -> {"ok", "transport", "extract", "blank"}
      [] v = JENKINS     -> {"ok", "transport", "extract", "error"}
      [] OTHER           -> {"ok", "transport", "extract"}

\* Does the script take what the fetch function returned for a record?  okta
\* tests "if raw_data:" on a dict that always holds the url (and a title that
\* may be None).
Accepted(v, outcome) == outcome = "ok" \/ (outcome = "blank" /\ v = OKTA)

\* Does the exception leave the fetch function?  fetch_advisory_html of
\* jenkins_raw.py catches requests.RequestException alone.
Escapes(v, outcome) == v = JENKINS /\ outcome = "error"

FailureStatus(outcome) == IF outcome = "extract" THEN "extract_failed" ELSE "fetch_failed"

\* ------------------------------------------------------------------ Init
\* An empty table, the runner at the top of its loop, no script running.
Fresh ==
    /\ vendor \in Vendors
    /\ store = {}
    /\ pc = "idle"
    /\ existing = {}
    /\ lookupOk = FALSE
    /\ edition = 1
    /\ discovered = {}
    /\ dispatched = {}
    /\ result = [u \in Names |-> NoResult]
    /\ cur = NoDoc
    /\ attempt = 0
    /\ onlyTransport = TRUE
    /\ backoff = FALSE
    /\ txAborted = FALSE
    /\ tx = {}
    /\ attempted = {}
    /\ wroteOk = {}
    /\ inserted = 0
    /\ failLog = {}
    /\ report = NoReport
    /\ runStartStore = {}
    /\ frontierChanged = TRUE
    /\ sameFrontier = FALSE
    /\ runner = "LOOP"
    /\ ret = {}
    /\ status = "NONE"
    /\ page = 0
    /\ pageOld = FALSE
    /\ pageStale = FALSE
    /\ scanError = FALSE
    /\ poolState = "none"
    /\ todo = 0
    /\ queue = 0
    /\ threads = 0
    /\ running = 0
    /\ finished = 0
    /\ alone = {}
    /\ aloneTx = {}
    /\ foreignAlone = {}
    /\ phase = "start"
    /\ connOpen = FALSE
    /\ browserOpen = FALSE
    /\ setups = 0
    /\ setupFailed = FALSE
    /\ deltaSize = 0
    /\ fetched = 0
    /\ stagedAny = FALSE
    /\ entries = <<>>
    /\ work = <<>>
    /\ fetchCount = [u \in Names |-> 0]
    /\ insertCount = [u \in Names |-> 0]
    /\ jg = "collect"
    /\ scripts_to_run = 0
    /\ at = 0
    /\ execs = [s \in 1..MaxScripts |-> <<>>]
    /\ log = <<>>
    /\ success_scripts = <<>>
    /\ failed_scripts = <<>>
    /\ summary = <<>>

Init ==
    /\ Fresh
    /\ listing = {}
    /\ sk = {}
    /\ other = vendor

\* ------------------------------------------------------------------ actions
\* run_script: subprocess.run starts the script, for the first call of the
\* runner's loop or for its retry.
StartRun ==
    /\ runner \in {"LOOP", "RETRY"}
    /\ runner' = IF runner = "LOOP" THEN "CALL1" ELSE "CALL2"
    /\ ret' = {}
    /\ status' = "NONE"
    /\ pc' = IF vendor = CHECK_POINT THEN "DISCOVER"
             ELSE IF vendor \in MainConnection THEN "CONNECT" ELSE "LOOKUP"
    /\ sameFrontier' = ~frontierChanged
    /\ frontierChanged' = TRUE
    /\ runStartStore' = store
    /\ existing' = {}
    /\ lookupOk' = FALSE
    /\ discovered' = {}
    /\ dispatched' = {}
    /\ result' = [u \in Names |-> NoResult]
    /\ cur' = NoDoc
    /\ attempt' = 0
    /\ onlyTransport' = TRUE
    /\ txAborted' = FALSE
    /\ tx' = store
    /\ attempted' = {}
    /\ wroteOk' = {}
    /\ inserted' = 0
    /\ failLog' = {}
    /\ report' = NoReport
    /\ aloneTx' = alone
    /\ UNCHANGED <<vendor, store, listing, sk, edition, scanVars, sideVars, alone, foreignAlone, other, backoff>>

\* psycopg2.connect in main(): checkpoint_raw.py init_db() has no handler around
\* it; okta, jenkins and fedora open it inside main's try, whose except logs and
\* lets main return.
Connect(ok) ==
    /\ pc = "CONNECT"
    /\ vendor \in MainConnection
    /\ pc' = IF ok THEN "LOOKUP"
             ELSE IF vendor = CHECK_POINT THEN "CRASHED" ELSE "REPORT"
    /\ UNCHANGED <<vendor, store, existing, lookupOk, discovered, listing, sk, edition, dispatched, result,
                   cur, attempt, onlyTransport, txAborted, tx, attempted, wroteOk, inserted,
                   failLog, report, runStartStore, frontierChanged, sameFrontier>>
    /\ UNCHANGED <<runnerVars, scanVars, sideVars, sharedVars, backoff>>

\* Mutant: main() has no "if not urls_to_fetch: return".
AfterDelta_NoShortCut(v, found, have) == "FETCH"

\* Where main() goes once it has both the discovery and the existing set.
AfterDelta(v, found, have) ==
    IF Delta(found, have) = {} THEN "REPORT" ELSE "FETCH"

\* get_existing_urls / get_existing_advisories / get_existing_advisory_urls.
\* connOk: the helper's own connection opened (fortinet, juniper);
\* queryOk: the SELECT returned.
Lookup(connOk, queryOk) ==
    /\ pc = "LOOKUP"
    /\ vendor \in MainConnection => connOk
    /\ LET good == connOk /\ queryOk
           have == IF good THEN SelectUrls(store, vendor) ELSE {}
       IN  /\ lookupOk' = good
           /\ IF vendor = CHECK_POINT /\ ~good
              THEN \* no handler: the exception leaves main()
                   /\ pc' = "CRASHED"
                   /\ existing' = {}
                   /\ UNCHANGED <<txAborted, report>>
              ELSE /\ existing' = have
                   \* a failed statement leaves the shared connection's
                   \* transaction aborted; the helpers do not roll back
                   /\ txAborted' = (vendor \in MainConnection /\ ~good)
                   /\ IF vendor = CHECK_POINT
                      THEN /\ pc' = AfterDelta(vendor, discovered, have)
                           /\ report' = IF Delta(discovered, have) = {}
                                        THEN [report EXCEPT !.staged = {0}]
                                        ELSE report
                      ELSE /\ pc' = "DISCOVER"
                           /\ UNCHANGED report
    /\ UNCHANGED <<vendor, store, discovered, listing, sk, edition, dispatched, result, cur, attempt,
                   onlyTransport, tx, attempted, wroteOk, inserted, failLog, runStartStore, frontierChanged, sameFrontier>>
    /\ UNCHANGED <<runnerVars, scanVars, sideVars, sharedVars, backoff>>

\* Discovery of the candidate identities: the API call of checkpoint_raw.py,
\* get_all_advisory_urls, get_all_advisory_links_from_html,
\* get_all_advisory_urls, fetch_all_bulletin_links and the listing page of
\* juniper_raw.py.  D: the identities found.  A listing page that fails
\* contributes nothing in fedora (fetch_page_links returns set()), so fedora
\* may find any part of the listing; the others find all of it or fail.
Discover(D, ok) ==
    /\ pc = "DISCOVER"
    /\ vendor \notin Paginated
    /\ D \subseteq listing
    /\ ok => (vendor = FEDORA \/ D = listing)
    /\ ~ok => D = {}
    /\ discovered' = D
    /\ IF ~ok
       THEN \* checkpoint: raise_for_status; juniper: page.goto inside try/finally;
            \* okta, fedora: the helper returns nothing
            /\ pc' = IF vendor \in {CHECK_POINT, JUNIPER} THEN "CRASHED" ELSE "REPORT"
            /\ UNCHANGED <<dispatched, report>>
       ELSE IF vendor = CHECK_POINT
       THEN /\ pc' = "CONNECT"
            /\ report' = [report EXCEPT !.discovered = {Cardinality(D)}]
            /\ UNCHANGED dispatched
       ELSE /\ pc' = AfterDelta(vendor, D, existing)
            /\ dispatched' = IF vendor \in Pooled THEN Delta(D, existing) ELSE {}
            /\ report' =
                 [report EXCEPT
                    !.discovered = IF vendor = FEDORA THEN {Cardinality(D)} ELSE @,
                    !.new = IF vendor \in {FEDORA, JUNIPER} \/ Delta(D, existing) # {}
                            THEN {Cardinality(Delta(D, existing))} ELSE @]
    /\ UNCHANGED <<vendor, store, existing, lookupOk, listing, sk, edition, result, cur, attempt,
                   onlyTransport, txAborted, tx, attempted, wroteOk, inserted, failLog,
                   runStartStore, frontierChanged, sameFrontier>>
    /\ UNCHANGED <<runnerVars, scanVars, sideVars, sharedVars, backoff>>

\* One pass of the "while keep_scanning" loop of fortinet_raw.py main().
\* rows: the page has advisory rows; ids: the identities its rows parse to
\* (a row without a detail path, or one whose parsing raises, yields none);
\* raised: driver.get raised, and the handler around the loop ends the scan
\* with what was collected.
FortinetScan(rows, ids, raised) ==
    /\ pc = "DISCOVER"
    /\ vendor = FORTINET
    /\ ids \subseteq listing
    /\ ~rows => ids = {}
    /\ raised => ~rows
    /\ page + 1 >= MaxPages => ~rows
    /\ LET found == discovered \cup ids
           page_has_new == ids \ existing # {}
           stop == raised \/ ~rows \/ (~page_has_new /\ existing # {})
       IN  /\ discovered' = found
           /\ scanError' = (scanError \/ raised)
           /\ IF stop
              THEN /\ page' = 0
                   /\ pageOld' = FALSE
                   /\ pageStale' = FALSE
                   /\ pc' = AfterDelta(vendor, found, existing)
                   /\ report' = IF Delta(found, existing) # {}
                                THEN [report EXCEPT !.new = {Cardinality(Delta(found, existing))}]
                                ELSE report
              ELSE /\ page' = page + 1
                   /\ pageOld' = ~page_has_new
                   /\ pageStale' = (ids # {} /\ ids \subseteq discovered)
                   /\ UNCHANGED <<pc, report>>
    /\ UNCHANGED <<vendor, store, existing, lookupOk, listing, sk, edition, dispatched,
                   result, cur, attempt, onlyTransport, txAborted, tx, attempted, wroteOk,
                   inserted, failLog, runStartStore, frontierChanged, sameFrontier,
                   runnerVars, sideVars, sharedVars, backoff>>

\* One pass of the "while True" loop of get_all_advisory_links_from_html.
\* ids: the advisory links of the page; outcome: "next" (the Next button is
\* there and enabled, and the click went through), "last" (no enabled Next
\* button), "click_raises" (the handler around the click ends the scan),
\* "crash" (page.goto or page.content raised: the exception reaches main's
\* handler).
JenkinsScan(ids, outcome) ==
    /\ pc = "DISCOVER"
    /\ vendor = JENKINS
    /\ ids \subseteq listing
    /\ outcome \in {"next", "last", "click_raises", "crash"}
    /\ outcome = "crash" => ids = {}
    /\ page + 1 >= MaxPages => outcome # "next"
    /\ scanError' = (scanError \/ outcome \in {"click_raises", "crash"})
    /\ LET found == discovered \cup ids
       IN  CASE outcome = "crash" ->
                  /\ discovered' = {}
                  /\ pc' = "REPORT"
                  /\ page' = 0 /\ pageOld' = FALSE /\ pageStale' = FALSE
                  /\ UNCHANGED <<dispatched, report>>
             [] outcome = "next" ->
                  /\ discovered' = found
                  /\ page' = page + 1
                  /\ pageOld' = (ids \ existing = {})
                  /\ pageStale' = (ids # {} /\ ids \subseteq discovered)
                  /\ UNCHANGED <<pc, dispatched, report>>
             [] OTHER ->
                  /\ discovered' = found
                  /\ page' = 0 /\ pageOld' = FALSE /\ pageStale' = FALSE
                  /\ pc' = AfterDelta(vendor, found, existing)
                  /\ dispatched' = Delta(found, existing)
                  /\ report' = IF Delta(found, existing) # {}
                               THEN [report EXCEPT !.new = {Cardinality(Delta(found, existing))}]
                               ELSE report
    /\ UNCHANGED <<vendor, store, existing, lookupOk, listing, sk, edition,
                   result, cur, attempt, onlyTransport, txAborted, tx, attempted, wroteOk,
                   inserted, failLog, runStartStore, frontierChanged, sameFrontier,
                   runnerVars, sideVars, sharedVars, backoff>>

\* checkpoint_raw.py: an advisory without skId is not fetched (scraped = {}).
NoDetail(u) ==
    /\ pc = "FETCH"
    /\ vendor = CHECK_POINT
    /\ cur = NoDoc
    /\ u \in Pending
    /\ u \notin sk
    /\ result' = [result EXCEPT ![u] = [NoResult EXCEPT !.st = "no_detail"]]
    /\ cur' = u
    /\ attempt' = 0
    /\ onlyTransport' = FALSE
    /\ pc' = "STAGE"
    /\ UNCHANGED <<vendor, store, existing, lookupOk, discovered, listing, sk, edition, dispatched,
                   txAborted, tx, attempted, wroteOk, inserted, failLog, report,
                   runStartStore, frontierChanged, sameFrontier>>
    /\ UNCHANGED <<runnerVars, scanVars, sideVars, sharedVars, backoff>>

\* Mutant: with nothing to write the script scans the listing again.
AfterFetch_Rescan(v, found, have, res) ==
    IF {u \in Delta(found, have) : res[u].st = "none"} # {}
    THEN "FETCH"
    ELSE IF v \in {FORTINET, JUNIPER} \/ BatchOf(v, found, have, res) # {}
         THEN "STAGE"
         ELSE "DISCOVER"

\* Where a script that fetches the whole delta before writing goes once the
\* last fetch has returned.
AfterFetch(v, found, have, res) ==
    IF {u \in Delta(found, have) : res[u].st = "none"} # {}
    THEN "FETCH"
    ELSE IF v \in {FORTINET, JUNIPER} \/ BatchOf(v, found, have, res) # {}
         THEN "STAGE"
         ELSE "REPORT"

\* One attempt of the detail fetch-and-extract of u: fetch_page_and_parse (one
\* pass of its loop), fetch_advisory_detail, fetch_advisory_html,
\* parse_advisory_details, scrape_detail, scrape_advisory.
FetchAttempt(u, outcome) ==
    /\ pc = "FETCH"
    /\ outcome \in Outcomes(vendor)
    /\ \/ cur = NoDoc /\ u \in Pending /\ u \in sk
       \/ cur = u       \* the next pass of the retry loop
    /\ LET first == cur = NoDoc
           n == IF first THEN 1 ELSE attempt + 1
           onlyT == (first \/ onlyTransport) /\ outcome = "transport"
           good == Accepted(vendor, outcome)
           done == good \/ n >= Attempts(vendor)
           res == [result EXCEPT ![u] =
                     [st |-> IF good THEN "ok" ELSE FailureStatus(outcome),
                      detail |-> IF outcome = "ok" THEN edition ELSE 0]]
       IN  /\ failLog' = IF ~good /\ LogsFailure(vendor, outcome)
                         THEN failLog \cup {u} ELSE failLog
           /\ attempt' = n
           /\ onlyTransport' = onlyT
           \* the "continue" after a client-side error marker skips the sleep
           \* at the end of the loop body
           /\ backoff' = (~done /\ outcome # "marker")
           /\ IF ~done
              THEN /\ cur' = u
                   /\ dispatched' = dispatched \cup {u}
                   /\ UNCHANGED <<result, pc>>
              ELSE /\ IF Escapes(vendor, outcome)
                      \* future.result() raises in main: its handler logs and
                      \* the script ends; every url had been submitted, and
                      \* the executor runs the fetches left before the with
                      \* block is left, their results unread
                      THEN /\ result' = [w \in Names |->
                                           IF w # u /\ w \in Pending
                                           THEN [st |-> "dropped", detail |-> 0]
                                           ELSE res[w]]
                           /\ cur' = NoDoc
                           /\ dispatched' = Delta(discovered, existing)
                           /\ pc' = "REPORT"
                      ELSE /\ result' = res
                           /\ dispatched' = dispatched \cup {u}
                           /\ IF vendor = CHECK_POINT
                              THEN cur' = u /\ pc' = "STAGE"
                              ELSE /\ cur' = NoDoc
                                   /\ pc' = AfterFetch(vendor, discovered, existing, res)
    /\ UNCHANGED <<vendor, store, existing, lookupOk, discovered, listing, sk, edition, txAborted, tx,
                   attempted, wroteOk, inserted, report, runStartStore, frontierChanged, sameFrontier>>
    /\ UNCHANGED <<runnerVars, scanVars, sideVars, sharedVars>>

\* checkpoint_raw.py main, between the fetch and the insert of an advisory:
\* convert_timestamp divides the "published" and "updated" values of the API
\* item by 1000, and a value that is not a number raises TypeError out of the
\* loop and out of main.
convert_timestamp_raises ==
    /\ pc = "STAGE"
    /\ vendor = CHECK_POINT
    /\ cur # NoDoc
    /\ pc' = "CRASHED"
    /\ UNCHANGED <<vendor, store, existing, lookupOk, discovered, listing, sk, edition, dispatched,
                   result, cur, attempt, onlyTransport, txAborted, tx, attempted, wroteOk,
                   inserted, failLog, report, runStartStore, frontierChanged, sameFrontier>>
    /\ UNCHANGED <<runnerVars, scanVars, sideVars, sharedVars, backoff>>


\* insert_advisory of checkpoint_raw.py, called for the advisory the loop is on:
\* execute, then commit; main() catches and logs what it raises and goes on.
insert_advisory(ok) ==
    /\ pc = "STAGE"
    /\ vendor = CHECK_POINT
    /\ cur # NoDoc
    /\ LET good == ok /\ ~txAborted
           left == Pending \ {cur}
           n == IF good THEN inserted + 1 ELSE inserted
       IN  /\ store' = IF good
                       THEN InsertRow(store, vendor, cur, RawOf(vendor, result[cur]),
                                      ConflictAction(vendor))
                       ELSE store
           /\ tx' = store'
           /\ alone' = IF good
                       THEN InsertRow(alone, vendor, cur, RawOf(vendor, result[cur]),
                                      ConflictAction(vendor))
                       ELSE alone
           /\ aloneTx' = alone'
           \* the failed execute is neither committed nor rolled back
           /\ txAborted' = ~good
           /\ inserted' = n
           /\ attempted' = attempted \cup {cur}
           /\ wroteOk' = IF good THEN wroteOk \cup {cur} ELSE wroteOk
           /\ cur' = NoDoc
           /\ pc' = IF left = {} THEN "REPORT" ELSE "FETCH"
           /\ report' = IF left = {} THEN [report EXCEPT !.staged = {n}] ELSE report
    /\ UNCHANGED <<vendor, existing, lookupOk, discovered, listing, sk, edition, dispatched, result, attempt,
                   onlyTransport, failLog, runStartStore, frontierChanged, sameFrontier>>
    /\ UNCHANGED <<runnerVars, scanVars, sideVars, foreignAlone, other, backoff>>

\* The execute_values statement and the commit of okta, jenkins, fedora (on the
\* connection of main) and of fortinet (on a connection of its own).
BulkWrite(ok) ==
    /\ pc = "STAGE"
    /\ vendor \in Bulk
    /\ LET batch == BatchOf(vendor, discovered, existing, result)
           raws == [u \in Names |-> RawOf(vendor, result[u])]
           good == ok /\ ~(vendor \in MainConnection /\ txAborted)
       IN  /\ store' = IF good
                       THEN InsertAll(store, vendor, batch, raws, ConflictAction(vendor))
                       ELSE store
           /\ tx' = store'
           /\ alone' = IF good
                       THEN InsertAll(alone, vendor, batch, raws, ConflictAction(vendor))
                       ELSE alone
           /\ aloneTx' = alone'
           /\ attempted' = batch
           /\ wroteOk' = IF good THEN batch ELSE {}
           \* fortinet has no handler around the write; the others log and return
           /\ pc' = IF ~good /\ vendor = FORTINET THEN "CRASHED" ELSE "REPORT"
           \* fortinet logs the batch size before the statement, the others after
           \* the commit
           /\ report' = IF good \/ vendor = FORTINET
                        THEN [report EXCEPT !.staged = {Cardinality(batch)}]
                        ELSE report
    /\ UNCHANGED <<vendor, existing, lookupOk, discovered, listing, sk, edition, dispatched, result, cur,
                   attempt, onlyTransport, txAborted, inserted, failLog, runStartStore, frontierChanged, sameFrontier>>
    /\ UNCHANGED <<runnerVars, scanVars, sideVars, foreignAlone, other, backoff>>

\* insert_into_staging of juniper_raw.py: psycopg2.connect, outside any handler.
insert_into_staging_connect(ok) ==
    /\ pc = "STAGE"
    /\ vendor = JUNIPER
    /\ pc' = IF ok THEN "WRITE" ELSE "CRASHED"
    /\ UNCHANGED <<vendor, store, existing, lookupOk, discovered, listing, sk, edition, dispatched, result,
                   cur, attempt, onlyTransport, txAborted, tx, attempted, wroteOk, inserted,
                   failLog, report, runStartStore, frontierChanged, sameFrontier>>
    /\ UNCHANGED <<runnerVars, scanVars, sideVars, sharedVars, backoff>>

\* One pass of its "for row in data_list" loop: execute inside try/except.
\* A statement sent on an aborted transaction fails too.
insert_into_staging_row(u, ok) ==
    /\ pc = "WRITE"
    /\ vendor = JUNIPER
    /\ u \in BatchOf(vendor, discovered, existing, result) \ attempted
    /\ LET good == ok /\ ~txAborted
       IN  /\ tx' = IF good
                    THEN InsertRow(tx, vendor, u, RawOf(vendor, result[u]),
                                   ConflictAction(vendor))
                    ELSE tx
           /\ aloneTx' = IF good
                         THEN InsertRow(aloneTx, vendor, u, RawOf(vendor, result[u]),
                                        ConflictAction(vendor))
                         ELSE aloneTx
           /\ txAborted' = ~good
           /\ wroteOk' = IF good THEN wroteOk \cup {u} ELSE wroteOk
    /\ attempted' = attempted \cup {u}
    /\ UNCHANGED <<vendor, store, pc, existing, lookupOk, discovered, listing, sk, edition, dispatched,
                   result, cur, attempt, onlyTransport, inserted, failLog, report,
                   runStartStore, frontierChanged, sameFrontier>>
    /\ UNCHANGED <<runnerVars, scanVars, sideVars, alone, foreignAlone, other, backoff>>

\* What COMMIT does to the committed rows: the transaction's rows become the
\* table, unless the transaction is aborted, and then COMMIT is a ROLLBACK.
Committed(rows, txRows, aborted) == IF aborted THEN rows ELSE txRows

\* The conn.commit() after the loop, and the log line of the main block.
insert_into_staging_commit(ok) ==
    /\ pc = "WRITE"
    /\ vendor = JUNIPER
    /\ BatchOf(vendor, discovered, existing, result) \subseteq attempted
    /\ store' = IF ok THEN Committed(store, tx, txAborted) ELSE store
    /\ tx' = store'
    /\ alone' = IF ok THEN Committed(alone, aloneTx, txAborted) ELSE alone
    /\ aloneTx' = alone'
    /\ pc' = IF ok THEN "REPORT" ELSE "CRASHED"
    /\ report' = IF ok
                 THEN [report EXCEPT !.staged =
                         {Cardinality(BatchOf(vendor, discovered, existing, result))}]
                 ELSE report
    /\ UNCHANGED <<vendor, existing, lookupOk, discovered, listing, sk, edition, dispatched, result, cur,
                   attempt, onlyTransport, txAborted, attempted, wroteOk, inserted, failLog,
                   runStartStore, frontierChanged, sameFrontier>>
    /\ UNCHANGED <<runnerVars, scanVars, sideVars, foreignAlone, other, backoff>>

\* The vendor publishes an advisory between two runs of the script
\* (withSk: the API entry carries a skId; only checkpoint_raw.py looks at it).
Publish(u, withSk) ==
    /\ runner = "LOOP"
    /\ u \notin listing
    /\ vendor # CHECK_POINT => withSk
    /\ listing' = listing \cup {u}
    /\ sk' = IF withSk THEN sk \cup {u} ELSE sk
    /\ frontierChanged' = TRUE
    /\ UNCHANGED <<vendor, store, pc, existing, lookupOk, edition, discovered, dispatched,
                   result, cur, attempt, onlyTransport, txAborted, tx, attempted, wroteOk,
                   inserted, failLog, report, runStartStore, sameFrontier>>
    /\ UNCHANGED <<runnerVars, scanVars, sideVars, sharedVars, backoff>>

\* The vendor edits its advisories between two runs: the detail pages serve
\* another version of their content from now on.
Edit(ver) ==
    /\ runner = "LOOP"
    /\ ver # edition
    /\ edition' = ver
    /\ frontierChanged' = TRUE
    /\ UNCHANGED <<vendor, store, pc, existing, lookupOk, listing, sk, discovered,
                   dispatched, result, cur, attempt, onlyTransport, txAborted, tx,
                   attempted, wroteOk, inserted, failLog, report, runStartStore,
                   sameFrontier>>
    /\ UNCHANGED <<runnerVars, scanVars, sideVars, sharedVars, backoff>>

\* ------------------------------------------------------- the daily runner
\* Exceptions subprocess.run raises into run_script: the script could not be
\* started, or it was still running after the timeout.
Exceptions == {"OSError", "TimeoutExpired"}

\* Mutant: the handler of run_script is "except OSError".
Caught_OSErrorOnly(exc) == exc = "OSError"

\* "except Exception" of run_script: both are subclasses of Exception.
Caught(exc) == exc \in Exceptions

\* The exit status of the script's process: 0 when main() returned (or called
\* sys.exit(0)), 1 when an exception left it.
ReturnCode(p) == IF p = "REPORT" THEN 0 ELSE 1

\* What the process held is gone once it has ended; an open transaction is
\* rolled back.
ProcessGone ==
    /\ pc' = "idle"
    /\ sameFrontier' = FALSE
    /\ runStartStore' = store
    /\ existing' = {}
    /\ lookupOk' = FALSE
    /\ discovered' = {}
    /\ dispatched' = {}
    /\ result' = [u \in Names |-> NoResult]
    /\ cur' = NoDoc
    /\ attempt' = 0
    /\ onlyTransport' = TRUE
    /\ txAborted' = FALSE
    /\ tx' = store
    /\ attempted' = {}
    /\ wroteOk' = {}
    /\ inserted' = 0
    /\ failLog' = {}
    /\ report' = NoReport
    /\ page' = 0
    /\ pageOld' = FALSE
    /\ pageStale' = FALSE
    /\ scanError' = FALSE
    /\ aloneTx' = alone
    /\ backoff' = FALSE

\* The body of the runner's loop once run_script has returned the pair
\* (success, message): SUCCESS after the first call, one retry after a failed
\* first call, then RETRY_SUCCESS or FAILED.
RunnerRecord(success) ==
    /\ runner' = IF runner \in {"LOOP", "CALL1"} /\ ~success THEN "RETRY" ELSE "LOOP"
    /\ status' = IF runner \in {"LOOP", "CALL1"}
                 THEN (IF success THEN "SUCCESS" ELSE "NONE")
                 ELSE (IF success THEN "RETRY_SUCCESS" ELSE "FAILED")

\* run_script when the process has ended: (True, output) if returncode == 0,
\* (False, output) otherwise; then the loop's bookkeeping.
run_script_return ==
    /\ runner \in {"CALL1", "CALL2"}
    /\ pc \in {"REPORT", "CRASHED"}
    /\ ret' = {<<ReturnCode(pc) = 0, "output">>}
    /\ RunnerRecord(ReturnCode(pc) = 0)
    /\ frontierChanged' = ~(pc = "REPORT" /\ discovered = listing)
    /\ ProcessGone
    /\ UNCHANGED <<vendor, store, listing, sk, edition, sideVars, alone, foreignAlone, other>>

\* run_script when subprocess.run raises: at the start (OSError), or while the
\* script runs (TimeoutExpired, after the child was killed).  The handler
\* returns (False, str(e)); an exception it does not catch ends jg.py.
run_script_raises(exc) ==
    /\ \/ exc = "OSError" /\ runner \in {"LOOP", "RETRY"}
       \/ /\ exc = "TimeoutExpired"
          /\ runner \in {"CALL1", "CALL2"}
          /\ pc \notin {"REPORT", "CRASHED"}
    /\ IF Caught(exc)
       THEN ret' = {<<FALSE, exc>>} /\ RunnerRecord(FALSE)
       ELSE ret' = {} /\ runner' = "DEAD" /\ status' = "NONE"
    /\ frontierChanged' = TRUE
    /\ ProcessGone
    /\ UNCHANGED <<vendor, store, listing, sk, edition, sideVars, alone, foreignAlone, other>>

Next ==
    \/ \E u \in Names : \E withSk \in BOOLEAN : Publish(u, withSk)
    \/ StartRun
    \/ \E ok \in BOOLEAN : Connect(ok)
    \/ \E connOk, queryOk \in BOOLEAN : Lookup(connOk, queryOk)
    \/ \E D \in SUBSET Names : \E ok \in BOOLEAN : Discover(D, ok)
    \/ \E rows, raised \in BOOLEAN : \E ids \in SUBSET Names : FortinetScan(rows, ids, raised)
    \/ \E ids \in SUBSET Names :
          \E o \in {"next", "last", "click_raises", "crash"} : JenkinsScan(ids, o)
    \/ \E u \in Names : NoDetail(u)
    \/ \E u \in Names : \E o \in Outcomes(vendor) : FetchAttempt(u, o)
    \/ \E ver \in Versions : Edit(ver)
    \/ convert_timestamp_raises
    \/ \E ok \in BOOLEAN : insert_advisory(ok)
    \/ \E ok \in BOOLEAN : BulkWrite(ok)
    \/ \E ok \in BOOLEAN : insert_into_staging_connect(ok)
    \/ \E u \in Names : \E ok \in BOOLEAN : insert_into_staging_row(u, ok)
    \/ \E ok \in BOOLEAN : insert_into_staging_commit(ok)
    \/ run_script_return
    \/ \E exc \in Exceptions : run_script_raises(exc)

Spec == Init /\ [][Next]_vars

\* ------------------------------------------------------- the fetch phase
\* What the fetch phase leaves alone.
scriptVars == <<vendor, store, pc, existing, lookupOk, listing, sk, edition, discovered,
                dispatched, result, cur, attempt, onlyTransport, txAborted, tx, attempted,
                wroteOk, inserted, failLog, report, runStartStore, frontierChanged,
                sameFrontier, backoff>>

\* Every variable of the run as a whole.
mainVars == <<scriptVars, runnerVars, scanVars, sharedVars>>

\* Mutant: the executor is given a worker for every document.
PoolSize_PerTask(v) == MaxDelta + 1

\* max_workers of the ThreadPoolExecutor the script's fetch phase opens.
PoolSize(v) ==
    CASE v = OKTA    -> OKTA_MAX_WORKERS
      [] v = JENKINS -> JENKINS_MAX_WORKERS
      [] v = FEDORA  -> FEDORA_MAX_WORKERS

\* The fetch phase begins with a delta of n documents: okta, jenkins and fedora
\* open an executor, the other scripts enter a for loop.
FetchPhaseStart(n) ==
    /\ poolState = "none"
    /\ poolState' = IF vendor \in Pooled THEN "pool" ELSE "loop"
    /\ todo' = n
    /\ queue' = 0
    /\ threads' = 0
    /\ running' = 0
    /\ finished' = 0
    /\ UNCHANGED <<mainVars, sessionVars, dupVars, jgVars>>

\* executor.submit for the next url of the dict comprehension: the work item is
\* queued, and a worker thread is started if none is idle and fewer than
\* max_workers exist.
executor_submit ==
    /\ poolState = "pool"
    /\ todo > 0
    /\ todo' = todo - 1
    /\ queue' = queue + 1
    /\ threads' = IF threads = running /\ threads < PoolSize(vendor)
                  THEN threads + 1
                  ELSE threads
    /\ UNCHANGED <<poolState, running, finished>>
    /\ UNCHANGED <<mainVars, sessionVars, dupVars, jgVars>>

\* An idle worker thread takes a work item and calls the fetch function.
worker_run ==
    /\ poolState = "pool"
    /\ queue > 0
    /\ running < threads
    /\ queue' = queue - 1
    /\ running' = running + 1
    /\ UNCHANGED <<poolState, todo, threads, finished>>
    /\ UNCHANGED <<mainVars, sessionVars, dupVars, jgVars>>

\* The for loop of checkpoint, fortinet and juniper calls the fetch function
\* for its next document.
loop_fetch ==
    /\ poolState = "loop"
    /\ todo > 0
    /\ running = 0
    /\ todo' = todo - 1
    /\ running' = 1
    /\ UNCHANGED <<poolState, queue, threads, finished>>
    /\ UNCHANGED <<mainVars, sessionVars, dupVars, jgVars>>

\* A call of the fetch function returns, to its worker or to the loop.
fetch_returns ==
    /\ poolState # "none"
    /\ running > 0
    /\ running' = running - 1
    /\ finished' = finished + 1
    /\ UNCHANGED <<poolState, todo, queue, threads>>
    /\ UNCHANGED <<mainVars, sessionVars, dupVars, jgVars>>

\* The with block of the executor ends once every future is done (the loop,
\* once every document was fetched).
FetchPhaseEnd ==
    /\ poolState # "none"
    /\ todo = 0
    /\ queue = 0
    /\ running = 0
    /\ poolState' = "none"
    /\ threads' = 0
    /\ finished' = 0
    /\ UNCHANGED <<todo, queue, running>>
    /\ UNCHANGED <<mainVars, sessionVars, dupVars, jgVars>>

NextPool ==
    \/ \E n \in 1..MaxDelta : FetchPhaseStart(n)
    \/ executor_submit
    \/ worker_run
    \/ loop_fetch
    \/ fetch_returns
    \/ FetchPhaseEnd

SpecPool == Init /\ [][NextPool]_vars

\* ------------------------------------------- two scripts on the one table
\* What the other vendor's portal lists while the two scripts run.
SharedListing == {"A", "B"}

\* Mutant: the other script builds its source_url values under this vendor's
\* base URL.
ForeignUrls_SharedBase(v) == {"A"}

\* The source_url values the script of vendor v can produce: each script joins
\* the paths it finds to the base URL of its own portal.
ForeignUrls(v) == ForeignNames

\* The script of another vendor, running at the same time, executes and
\* commits its INSERT of one document.  The open transaction of this script
\* (READ COMMITTED) sees the committed row from its next statement on.
ForeignWrite(x, ver) ==
    /\ other # vendor
    /\ x \in ForeignUrls(other)
    /\ LET raw == [meta |-> (other \in KeepsListingFields), detail |-> ver]
       IN  /\ store' = InsertRow(store, other, x, raw, ConflictAction(other))
           /\ tx' = InsertRow(tx, other, x, raw, ConflictAction(other))
           /\ foreignAlone' = InsertRow(foreignAlone, other, x, raw, ConflictAction(other))
    /\ UNCHANGED <<vendor, pc, existing, lookupOk, listing, sk, edition, discovered,
                   dispatched, result, cur, attempt, onlyTransport, txAborted, attempted,
                   wroteOk, inserted, failLog, report, runStartStore, frontierChanged,
                   sameFrontier, alone, aloneTx, other>>
    /\ UNCHANGED <<runnerVars, scanVars, sideVars, backoff>>

InitShared ==
    /\ Fresh
    /\ listing = SharedListing
    \* one advisory of checkpoint's API comes without an skId
    /\ sk = IF vendor = CHECK_POINT THEN {"A"} ELSE SharedListing
    /\ other \in Vendors \ {vendor}

NextShared ==
    \/ StartRun
    \/ \E ok \in BOOLEAN : Connect(ok)
    \/ \E connOk, queryOk \in BOOLEAN : Lookup(connOk, queryOk)
    \/ \E D \in SUBSET Names : \E ok \in BOOLEAN : Discover(D, ok)
    \/ \E rows, raised \in BOOLEAN : \E ids \in SUBSET Names : FortinetScan(rows, ids, raised)
    \/ \E ids \in SUBSET Names :
          \E o \in {"next", "last", "click_raises", "crash"} : JenkinsScan(ids, o)
    \/ \E u \in Names : NoDetail(u)
    \/ \E u \in Names : \E o \in Outcomes(vendor) : FetchAttempt(u, o)
    \/ convert_timestamp_raises
    \/ \E ok \in BOOLEAN : insert_advisory(ok)
    \/ \E ok \in BOOLEAN : BulkWrite(ok)
    \/ \E ok \in BOOLEAN : insert_into_staging_connect(ok)
    \/ \E u \in Names : \E ok \in BOOLEAN : insert_into_staging_row(u, ok)
    \/ \E ok \in BOOLEAN : insert_into_staging_commit(ok)
    \/ run_script_return
    \/ \E x \in Names \cup ForeignNames : \E ver \in Versions : ForeignWrite(x, ver)

SpecShared == InitShared /\ [][NextShared]_vars

\* ---------------------------------------------------------------------------
\* The resources of one run: the database connection and the browser a script
\* acquires, and the places where it closes them.
\* ---------------------------------------------------------------------------

\* The scripts that fetch the detail pages through a browser.
BrowserStrategy(v) == v \in {CHECK_POINT, JUNIPER}

\* The scripts that launch a browser at all (the others use plain requests).
UsesBrowser(v) == v \in {CHECK_POINT, JUNIPER, JENKINS, FORTINET}

\* Where main starts: checkpoint with the API request, fortinet and juniper
\* with the lookup (which opens a connection of its own), the others by
\* opening the connection of the run.
FirstPhase(v) ==
    CASE v = CHECK_POINT           -> "api"
      [] v \in {FORTINET, JUNIPER} -> "lookup"
      [] OTHER                     -> "connect"

\* main has a handler around its whole body (okta, jenkins, fedora): an
\* exception ends the run in the handler; elsewhere it ends the process.
OnException(v) == IF v \in {OKTA, JENKINS, FEDORA} THEN "done" ELSE "crashed"

\* Mutant: a failed launch is swallowed and the script goes on to the loop.
OnSetupFailure_GoOn(v) == "loop"

\* No script handles a failed launch where it happens: the exception leaves
\* the function (and, in jenkins, is caught by the handler of main).
OnSetupFailure(v) == OnException(v)

\* A fetch loop out of which an exception can come: checkpoint converts the
\* timestamps outside any handler, jenkins reads future.result() of a fetch
\* that catches only RequestException.
MayRaiseInLoop(v) == v \in {CHECK_POINT, JENKINS}

enter_main(n) ==
    /\ phase = "start"
    /\ n \in 0..MaxDocs
    /\ phase' = FirstPhase(vendor)
    /\ deltaSize' = n
    /\ UNCHANGED <<connOpen, browserOpen, setups, setupFailed, fetched, stagedAny>>
    /\ UNCHANGED <<mainVars, poolVars, dupVars, jgVars>>

api_request(ok) ==
    /\ phase = "api"
    /\ phase' = IF ok THEN "connect" ELSE "crashed"
    /\ UNCHANGED <<connOpen, browserOpen, setups, setupFailed, deltaSize, fetched,
                   stagedAny>>
    /\ UNCHANGED <<mainVars, poolVars, dupVars, jgVars>>

open_connection(ok) ==
    /\ phase = "connect"
    /\ connOpen' = ok
    /\ phase' = IF ok THEN "lookup" ELSE OnException(vendor)
    /\ UNCHANGED <<browserOpen, setups, setupFailed, deltaSize, fetched, stagedAny>>
    /\ UNCHANGED <<mainVars, poolVars, dupVars, jgVars>>

\* The lookup of the existing identities. checkpoint lets an error out; the
\* helpers of the other scripts catch it. fortinet opens its connection in a
\* with block of psycopg2, which ends the transaction and leaves the
\* connection open; juniper closes its connection after the query, inside the
\* try block, so that a failed query skips the close.
load_existing(outcome) ==
    /\ phase = "lookup"
    /\ outcome \in {"ok", "query_fails", "connect_fails"}
    /\ outcome = "connect_fails" => vendor \in {FORTINET, JUNIPER}
    /\ connOpen' = CASE vendor = FORTINET -> outcome # "connect_fails"
                     [] vendor = JUNIPER  -> outcome = "query_fails"
                     [] OTHER             -> connOpen
    /\ phase' = CASE vendor = CHECK_POINT /\ outcome # "ok" -> "crashed"
                  [] UsesBrowser(vendor)                    -> "setup"
                  [] OTHER                                  -> "discover"
    /\ UNCHANGED <<browserOpen, setups, setupFailed, deltaSize, fetched, stagedAny>>
    /\ UNCHANGED <<mainVars, poolVars, dupVars, jgVars>>

\* The launch of a browser: checkpoint's before its loop (with the visit of
\* the homepage), jenkins's and fortinet's before the scan of the listing,
\* juniper's once before the listing and once more in scrape_batch.
create_browser(ok) ==
    /\ phase \in {"setup", "setup2"}
    /\ IF ok
       THEN /\ browserOpen' = TRUE
            /\ setups' = setups + 1
            /\ phase' = IF vendor = CHECK_POINT \/ phase = "setup2"
                        THEN "loop" ELSE "discover"
            /\ UNCHANGED setupFailed
       ELSE /\ setupFailed' = TRUE
            /\ phase' = OnSetupFailure(vendor)
            /\ UNCHANGED <<browserOpen, setups>>
    /\ UNCHANGED <<connOpen, deltaSize, fetched, stagedAny>>
    /\ UNCHANGED <<mainVars, poolVars, dupVars, jgVars>>

\* The scan of the listing. The browser of the scan is closed on every way
\* out (finally in fortinet and juniper, the with block of playwright in
\* jenkins). An error leaves juniper's block and jenkins's function and is
\* caught in fortinet, okta and fedora, where the listing found so far (here:
\* nothing) is the result.
scan_listing(ok) ==
    /\ phase = "discover"
    /\ browserOpen' = FALSE
    /\ deltaSize' = IF ok THEN deltaSize ELSE 0
    /\ phase' = CASE ~ok /\ vendor \in {JENKINS, JUNIPER} -> OnException(vendor)
                  [] deltaSize' = 0                       -> "done"
                  [] vendor = JUNIPER                     -> "setup2"
                  [] OTHER                                -> "loop"
    /\ UNCHANGED <<connOpen, setups, setupFailed, fetched, stagedAny>>
    /\ UNCHANGED <<mainVars, poolVars, dupVars, jgVars>>

\* One turn of the fetch loop; checkpoint inserts the record in the same
\* turn. An exception out of the loop leaves the with block of playwright in
\* checkpoint, which stops the browser; nothing closes the connection.
fetch_one(raises) ==
    /\ phase = "loop"
    /\ fetched < deltaSize
    /\ raises => MayRaiseInLoop(vendor)
    /\ fetched' = fetched + 1
    /\ IF raises
       THEN /\ phase' = OnException(vendor)
            /\ browserOpen' = FALSE
            /\ UNCHANGED stagedAny
       ELSE /\ stagedAny' = (stagedAny \/ vendor = CHECK_POINT)
            /\ UNCHANGED <<phase, browserOpen>>
    /\ UNCHANGED <<connOpen, setups, setupFailed, deltaSize>>
    /\ UNCHANGED <<mainVars, poolVars, dupVars, jgVars>>

\* The end of the loop: checkpoint closes the browser and the connection and
\* is done, juniper closes the browser of scrape_batch, and every script but
\* checkpoint goes on to write its batch.
leave_loop ==
    /\ phase = "loop"
    /\ fetched = deltaSize
    /\ browserOpen' = FALSE
    /\ connOpen' = IF vendor = CHECK_POINT THEN FALSE ELSE connOpen
    /\ phase' = IF vendor = CHECK_POINT THEN "done" ELSE "write"
    /\ UNCHANGED <<setups, setupFailed, deltaSize, fetched, stagedAny>>
    /\ UNCHANGED <<mainVars, poolVars, dupVars, jgVars>>

\* The write of the batch. okta, jenkins and fedora write on the connection
\* of the run, inside the handler of main. fortinet and juniper open a
\* connection for the write, outside any handler: fortinet's with block
\* leaves it open, juniper closes it after the commit and not when the
\* commit raises.
write_batch(outcome) ==
    /\ phase = "write"
    /\ outcome \in {"ok", "write_fails", "connect_fails"}
    /\ outcome = "connect_fails" => vendor \in {FORTINET, JUNIPER}
    /\ stagedAny' = (outcome = "ok")
    /\ connOpen' = CASE vendor = FORTINET -> connOpen \/ outcome # "connect_fails"
                     [] vendor = JUNIPER  -> connOpen \/ outcome = "write_fails"
                     [] OTHER             -> connOpen
    /\ phase' = IF outcome = "ok" THEN "done" ELSE OnException(vendor)
    /\ UNCHANGED <<browserOpen, setups, setupFailed, deltaSize, fetched>>
    /\ UNCHANGED <<mainVars, poolVars, dupVars, jgVars>>

NextSession ==
    \/ \E n \in 0..MaxDocs : enter_main(n)
    \/ \E ok \in BOOLEAN : api_request(ok)
    \/ \E ok \in BOOLEAN : open_connection(ok)
    \/ \E outcome \in {"ok", "query_fails", "connect_fails"} : load_existing(outcome)
    \/ \E ok \in BOOLEAN : create_browser(ok)
    \/ \E ok \in BOOLEAN : scan_listing(ok)
    \/ \E raises \in BOOLEAN : fetch_one(raises)
    \/ leave_loop
    \/ \E outcome \in {"ok", "write_fails", "connect_fails"} : write_batch(outcome)

SpecSession == Init /\ [][NextSession]_vars

\* ---------------------------------------------------------------------------
\* The fetch loop over a listing in which discovery returned an identity more
\* than once.
\* ---------------------------------------------------------------------------

\* The identities of the listings with repeated entries.
DupNames == {"A", "B"}

\* The listings discovery can return: up to MaxEntries entries, in any order,
\* repeated or not.
Listings == UNION {[1..n -> DupNames] : n \in 1..MaxEntries}

\* The entries of s in the order of their first occurrence, each once.
RECURSIVE Dedupe(_)
Dedupe(s) ==
    IF s = <<>>
    THEN <<>>
    ELSE LET r == Dedupe(SubSeq(s, 1, Len(s) - 1))
             l == s[Len(s)]
         IN  IF \E i \in 1..Len(r) : r[i] = l THEN r ELSE Append(r, l)

\* What the loop of a script goes through, given the listing s and the
\* identities already staged: checkpoint the list of the API as it is
\* (filtered one by one inside the loop), juniper the entries not yet
\* staged, in a list; fortinet the values of a dictionary keyed by url;
\* okta, jenkins and fedora a set.
Worklist(v, s, have) ==
    CASE v = CHECK_POINT -> s
      [] v = JUNIPER     -> SelectSeq(s, LAMBDA u : u \notin have)
      [] OTHER           -> Dedupe(SelectSeq(s, LAMBDA u : u \notin have))

\* The scripts that write a record for a document whose detail fetch failed.
StagesFailedFetch(v) == v \in {CHECK_POINT, FORTINET}

discover_entries(s) ==
    /\ entries = <<>>
    /\ s \in Listings
    /\ entries' = s
    /\ work' = Worklist(vendor, s, existing)
    /\ UNCHANGED <<fetchCount, insertCount>>
    /\ UNCHANGED <<mainVars, poolVars, sessionVars, jgVars>>

\* One entry of the loop: skipped by checkpoint when it was staged before the
\* run (the set read at the start is not updated by the inserts of the run),
\* otherwise fetched and, when the fetch gave a record, handed to the INSERT.
process_entry(ok) ==
    /\ work # <<>>
    /\ LET u == Head(work) IN
       IF vendor = CHECK_POINT /\ u \in existing
       THEN UNCHANGED <<fetchCount, insertCount>>
       ELSE /\ fetchCount' = [fetchCount EXCEPT ![u] = @ + 1]
            /\ insertCount' = IF ok \/ StagesFailedFetch(vendor)
                              THEN [insertCount EXCEPT ![u] = @ + 1]
                              ELSE insertCount
    /\ work' = Tail(work)
    /\ UNCHANGED entries
    /\ UNCHANGED <<mainVars, poolVars, sessionVars, jgVars>>

NextDup ==
    \/ \E s \in Listings : discover_entries(s)
    \/ \E ok \in BOOLEAN : process_entry(ok)

SpecDup == Init /\ [][NextDup]_vars

\* ---------------------------------------------------------------------------
\* The daily runner (jg.py) over the scripts it collected: the loop with its
\* one retry, the log it writes, the two NVD runs and the summary.
\* ---------------------------------------------------------------------------

\* The scripts of scripts_to_run, by their place in the list.
Scripts == 1..MaxScripts

\* The two NVD scripts, which are run after the loop and are not collected.
NvdMain == 0
NvdOther == -1

\* The ways a call of subprocess.run ends: exit status 0, another exit
\* status, or an exception.
RunOutcomes == {"zero", "nonzero"} \cup Exceptions

\* Mutant: the second call is made whatever the first returned.
Retries_Always(success) == TRUE

\* "if success: ... else: ... run_script(script_path)" of the loop.
Retries(success) == ~success

\* STATUS of the log line the loop writes after the last call for a script.
StatusOf(first, success) ==
    CASE first            -> "SUCCESS"
      [] success          -> "RETRY_SUCCESS"
      [] OTHER            -> "FAILED"

\* After the log line of a script: the next script, or the NVD runs.
NextScript ==
    IF at < scripts_to_run
    THEN /\ at' = at + 1
         /\ jg' = "call1"
    ELSE /\ at' = at
         /\ jg' = "nvd1"

\* The directory listing gave n scripts.
collect_scripts(n) ==
    /\ jg = "collect"
    /\ n \in 0..MaxScripts
    /\ scripts_to_run' = n
    /\ at' = IF n > 0 THEN 1 ELSE 0
    /\ jg' = IF n > 0 THEN "call1" ELSE "nvd1"
    /\ UNCHANGED <<execs, log, success_scripts, failed_scripts, summary>>
    /\ UNCHANGED <<mainVars, poolVars, sessionVars, dupVars>>

\* run_script for the script the loop is on, and what the loop does with the
\* pair it returns. An exception run_script does not catch ends jg.py.
run_script(outcome) ==
    /\ jg \in {"call1", "call2"}
    /\ outcome \in RunOutcomes
    /\ execs' = [execs EXCEPT ![at] = Append(@, outcome = "zero")]
    /\ LET success == outcome = "zero" IN
       IF outcome \in Exceptions /\ ~Caught(outcome)
       THEN /\ jg' = "dead"
            /\ UNCHANGED <<at, log, success_scripts, failed_scripts>>
       ELSE IF jg = "call1" /\ Retries(success)
       THEN /\ jg' = "call2"
            /\ UNCHANGED <<at, log, success_scripts, failed_scripts>>
       ELSE /\ log' = Append(log, [script |-> at,
                                   status |-> StatusOf(jg = "call1", success)])
            /\ success_scripts' = IF success THEN Append(success_scripts, at)
                                  ELSE success_scripts
            /\ failed_scripts' = IF success THEN failed_scripts
                                 ELSE Append(failed_scripts, at)
            /\ NextScript
    /\ UNCHANGED <<scripts_to_run, summary>>
    /\ UNCHANGED <<mainVars, poolVars, sessionVars, dupVars>>

\* The run of an NVD script, if the file exists: one call, one log line,
\* nothing added to the two lists.
nvd_run(exists, success) ==
    /\ jg \in {"nvd1", "nvd2"}
    /\ log' = IF exists
              THEN Append(log, [script |-> IF jg = "nvd1" THEN NvdMain ELSE NvdOther,
                                status |-> IF success THEN "SUCCESS" ELSE "FAILED"])
              ELSE log
    /\ jg' = IF jg = "nvd1" THEN "nvd2" ELSE "summary"
    /\ UNCHANGED <<scripts_to_run, at, execs, success_scripts, failed_scripts, summary>>
    /\ UNCHANGED <<mainVars, poolVars, sessionVars, dupVars>>

\* The summary of the mail: the lengths of the two lists.
send_summary ==
    /\ jg = "summary"
    /\ summary' = <<Len(success_scripts), Len(failed_scripts)>>
    /\ jg' = "end"
    /\ UNCHANGED <<scripts_to_run, at, execs, log, success_scripts, failed_scripts>>
    /\ UNCHANGED <<mainVars, poolVars, sessionVars, dupVars>>

NextRunner ==
    \/ \E n \in 0..MaxScripts : collect_scripts(n)
    \/ \E outcome \in RunOutcomes : run_script(outcome)
    \/ \E exists, success \in BOOLEAN : nvd_run(exists, success)
    \/ send_summary

SpecRunner == Init /\ [][NextRunner]_vars

\* ---------------------------------------------------------------------------
\* The upsert scripts and the consumer of the staged rows, which marks a row
\* as processed between two runs.
\* ---------------------------------------------------------------------------

\* The consumer has processed the row of u: it sets the flag of the row.
consumer_marks(u) ==
    /\ runner = "LOOP"
    /\ pc = "idle"
    /\ \E r \in store : r.source_url = u /\ ~r.processed
    /\ store' = {IF r.source_url = u THEN [r EXCEPT !.processed = TRUE] ELSE r :
                   r \in store}
    /\ tx' = store'
    /\ runStartStore' = store'
    /\ UNCHANGED <<vendor, pc, existing, lookupOk, listing, sk, edition, discovered,
                   dispatched, result, cur, attempt, onlyTransport, txAborted, attempted,
                   wroteOk, inserted, failLog, report, frontierChanged, sameFrontier,
                   backoff>>
    /\ UNCHANGED <<runnerVars, scanVars, sideVars, sharedVars>>

\* A script whose INSERT ends in DO UPDATE, with the listing of SharedListing.
InitConsumer ==
    /\ Fresh
    /\ ConflictAction(vendor) = "DO UPDATE"
    /\ listing = SharedListing
    /\ sk = SharedListing
    /\ other = vendor

NextConsumer ==
    \/ StartRun
    \/ \E ok \in BOOLEAN : Connect(ok)
    \/ \E connOk, queryOk \in BOOLEAN : Lookup(connOk, queryOk)
    \/ \E rows, raised \in BOOLEAN : \E ids \in SUBSET Names : FortinetScan(rows, ids, raised)
    \/ \E ids \in SUBSET Names :
          \E o \in {"next", "last", "click_raises", "crash"} : JenkinsScan(ids, o)
    \/ \E u \in Names : \E o \in Outcomes(vendor) : FetchAttempt(u, o)
    \/ \E ok \in BOOLEAN : BulkWrite(ok)
    \/ run_script_return
    \/ \E u \in Names : consumer_marks(u)

SpecConsumer == InitConsumer /\ [][NextConsumer]_vars

TypeOK ==
    /\ vendor \in Vendors
    /\ phase \in {"start", "api", "connect", "lookup", "setup", "discover", "setup2",
                  "loop", "write", "done", "crashed"}
    /\ connOpen \in BOOLEAN
    /\ browserOpen \in BOOLEAN
    /\ setups \in 0..2
    /\ setupFailed \in BOOLEAN
    /\ deltaSize \in 0..MaxDocs
    /\ fetched \in 0..deltaSize
    /\ stagedAny \in BOOLEAN
    /\ entries \in {<<>>} \cup Listings
    /\ Len(work) <= Len(entries)
    /\ fetchCount \in [Names -> 0..MaxEntries]
    /\ insertCount \in [Names -> 0..MaxEntries]
    /\ jg \in {"collect", "call1", "call2", "nvd1", "nvd2", "summary", "end", "dead"}
    /\ scripts_to_run \in 0..MaxScripts
    /\ at \in 0..scripts_to_run
    /\ \A x \in Scripts : Len(execs[x]) <= 2
    /\ \A i \in 1..Len(log) :
          /\ log[i].script \in Scripts \cup {NvdMain, NvdOther}
          /\ log[i].status \in {"SUCCESS", "RETRY_SUCCESS", "FAILED"}
    /\ Len(success_scripts) + Len(failed_scripts) <= scripts_to_run
    /\ Len(summary) \in {0, 2}
    /\ store \subseteq Row
    /\ tx \subseteq Row
    /\ listing \subseteq Names
    /\ sk \subseteq listing
    /\ existing \subseteq Names
    /\ discovered \subseteq listing
    /\ dispatched \subseteq Names
    /\ cur \in Names \cup {NoDoc}
    /\ attempt \in 0..NAV_RETRIES
    /\ page \in 0..MaxPages

\* ------------------------------------------------------------ properties
Urls(rows) == {r.source_url : r \in rows}
StagedFor(rows, v) == {r.source_url : r \in {x \in rows : x.vendor_name = v}}
\* Identities that have a row now and had none when the run began.
NewlyStaged == StagedFor(store, vendor) \ StagedFor(runStartStore, vendor)
FailedStatus == {"fetch_failed", "extract_failed"}

\* C1 (as claimed): when a run has ended, the identities a detail fetch was
\* dispatched for are exactly the discovered ones minus the existing ones.
C1_FetchSetIsDelta ==
    pc = "REPORT" => dispatched = discovered \ existing

\* C1 (amended): no identity of the existing set is ever fetched, only
\* identities of discovered minus existing are, and when the run has ended the
\* fetched ones are exactly those of discovered minus existing that carry a
\* detail reference (all of them, except Check Point advisories without skId).
C1_DeltaCorrectness ==
    /\ dispatched \cap existing = {}
    /\ dispatched \subseteq (discovered \ existing) \cap sk
    /\ pc = "REPORT" => dispatched = (discovered \ existing) \cap sk

C1_Witness ==
    /\ pc = "REPORT"
    /\ lookupOk
    /\ discovered \cap existing # {}
    /\ dispatched # {}

\* C2: the staging table never holds two rows with the same (vendor, url), and
\* under insert-if-absent (DO NOTHING) no step changes or removes a row that is
\* there: a re-ingested identity keeps its first row.
C2_OneRowPerIdentity ==
    /\ [](\A r1, r2 \in store :
             (r1.vendor_name = r2.vendor_name /\ r1.source_url = r2.source_url)
                => r1 = r2)
    /\ [][ConflictAction(vendor) = "DO NOTHING" => store \subseteq store']_vars

\* A DO NOTHING script has re-ingested an identity whose row holds another
\* payload than the one fetched now, and the table is as it was.
C2_Witness ==
    /\ ConflictAction(vendor) = "DO NOTHING"
    /\ pc = "REPORT"
    /\ store = runStartStore
    /\ \E r \in store : /\ r.source_url \in wroteOk
                        /\ r.raw_data.detail # result[r.source_url].detail

\* C3 (as claimed): a run that follows a finished run, with the listing
\* unchanged in between, leaves the table as it found it.
C3_SecondRunChangesNothing ==
    (pc = "REPORT" /\ sameFrontier) => store = runStartStore

\* C3 (amended): if the run before left every listed identity staged, the run
\* stages no new record (same identities, same number of rows), and the rows
\* are the same rows when its lookup succeeded or its policy is DO NOTHING.
C3_Idempotence ==
    (pc = "REPORT" /\ sameFrontier /\ listing \subseteq StagedFor(runStartStore, vendor))
       => /\ Urls(store) = Urls(runStartStore)
          /\ Cardinality(store) = Cardinality(runStartStore)
          /\ (lookupOk \/ ConflictAction(vendor) = "DO NOTHING") => store = runStartStore

\* The second run re-ingested identities that were all staged.
C3_Witness ==
    /\ pc = "REPORT"
    /\ sameFrontier
    /\ listing = Names
    /\ listing \subseteq StagedFor(runStartStore, vendor)
    /\ wroteOk # {}

\* C4: fetch_page_and_parse never makes more than NAV_RETRIES attempts for an
\* identity, and when every attempt ended in a transport error it has made
\* exactly NAV_RETRIES of them and returned the failure outcome.
C4_RetryCeiling ==
    vendor = CHECK_POINT =>
       /\ attempt <= NAV_RETRIES
       /\ (pc = "FETCH" /\ cur # NoDoc) => attempt < NAV_RETRIES
       /\ (pc = "STAGE" /\ onlyTransport) =>
              (attempt = NAV_RETRIES /\ result[cur].st = "fetch_failed")

C4_Witness ==
    /\ vendor = CHECK_POINT
    /\ pc = "STAGE"
    /\ onlyTransport
    /\ attempt = NAV_RETRIES
    /\ result[cur].st = "fetch_failed"

C6_PartialFailureIsolation ==
    LET delta == discovered \ existing
        X == {u \in delta : result[u].st = "extract_failed"}
    IN  (/\ pc = "REPORT"
         /\ lookupOk
         /\ Cardinality(X) = 1
         /\ \A u \in delta \ X : result[u].st = "ok"
         /\ attempted = wroteOk)
           => (NewlyStaged = delta \ X /\ X \subseteq failLog)

\* C7: when the write of a record failed in a run, every record of the run
\* whose own write had succeeded is in the table when the run has finished.
C7_PerRecordAtomicity ==
    (pc = "REPORT" /\ attempted # wroteOk)
       => wroteOk \subseteq StagedFor(store, vendor)

C9_Scenario ==
    (/\ pc = "REPORT"
     /\ discovered = {"A", "B", "C"}
     /\ existing = {"B"}
     /\ lookupOk
     /\ result["A"].st = "ok"
     /\ result["C"].st = "fetch_failed"
     /\ attempted = wroteOk)
       => /\ NewlyStaged = {"A"}
          /\ "B" \notin dispatched
          /\ report.discovered = {3}
          /\ report.skipped = {1}
          /\ report.staged = {1}
          /\ report.fetch_failed = {1}

\* C10: a failed connection or a failed lookup query never ends the run: the
\* run goes on with the empty existing set.
C10_FailOpen ==
    [][/\ pc = "CONNECT" => pc' \notin {"REPORT", "CRASHED"}
       /\ (pc = "LOOKUP" /\ ~lookupOk') => (existing' = {} /\ pc' # "CRASHED")]_vars

\* C11: when a write of the run failed, no record of the run is staged when the
\* script ends and the runner does not take the call for a success.
C11_StoreFailureFatal ==
    [][(/\ runner \in {"CALL1", "CALL2"}
        /\ runner' \in {"LOOP", "RETRY"}
        /\ attempted # wroteOk)
          => (NewlyStaged = {} /\ <<TRUE, "output">> \notin ret')]_vars

\* C12: no exception escapes run_script, and every call that has ended has
\* returned exactly one pair of a success flag and a message, the flag being
\* true only with the output of a script that ran to its end.
C12_StructuredOutcome ==
    /\ runner # "DEAD"
    /\ ret \subseteq (BOOLEAN \X ({"output"} \cup Exceptions))
    /\ Cardinality(ret) <= 1
    /\ (runner = "RETRY" \/ status # "NONE") => Cardinality(ret) = 1
    /\ runner = "RETRY" => \A p \in ret : p[1] = FALSE
    /\ \A p \in ret : p[1] => p[2] = "output"

\* The first call timed out; run_script returned (False, message) and the
\* runner is about to retry.
C12_Witness ==
    /\ runner = "RETRY"
    /\ ret = {<<FALSE, "TimeoutExpired">>}

\* The phases of the run orchestrator, in the order INIT, DISCOVER, (DELTA,)
\* FETCH (and EXTRACT), STAGE, REPORT.
SpecPhase(p) ==
    CASE p \in {"idle"}                 -> 0
      [] p \in {"CONNECT", "LOOKUP"}    -> 1
      [] p = "DISCOVER"                 -> 2
      [] p = "FETCH"                    -> 3
      [] p \in {"STAGE", "WRITE"}       -> 4
      [] p \in {"REPORT", "CRASHED"}    -> 5

\* The order in the script of vendor v: checkpoint_raw.py calls the API before
\* it opens the database, and fetches and stages one advisory at a time.
Phase(v, p) ==
    IF v # CHECK_POINT THEN SpecPhase(p)
    ELSE CASE p \in {"idle"}                 -> 0
           [] p = "DISCOVER"                 -> 1
           [] p \in {"CONNECT", "LOOKUP"}    -> 2
           [] p \in {"FETCH", "STAGE"}       -> 3
           [] p \in {"REPORT", "CRASHED"}    -> 5

\* C13 (as claimed): within a run the phases occur in the order INIT, DISCOVER,
\* DELTA, FETCH, EXTRACT, STAGE, REPORT, none is entered again, and no detail
\* fetch is dispatched once an INSERT has been executed.
C13_PhasesInOrder ==
    [][runner' = runner =>
          /\ SpecPhase(pc') >= SpecPhase(pc)
          /\ attempted # {} => dispatched' = dispatched]_vars

\* C13 (amended): within a run no step goes back to an earlier phase of the
\* script's own order (checkpoint: DISCOVER, INIT, then FETCH and STAGE once
\* per advisory); in every other script no detail fetch is dispatched once an
\* INSERT has been executed; and in every script no listing page is requested
\* and nothing is discovered once a detail fetch has been dispatched.
C13_NoEarlierPhase ==
    [][runner' = runner =>
          /\ Phase(vendor, pc') >= Phase(vendor, pc)
          /\ (vendor # CHECK_POINT /\ attempted # {}) => dispatched' = dispatched
          /\ dispatched # {} => (discovered' = discovered /\ page' = page)]_vars

\* checkpoint is back at the fetch of an advisory after it has staged one.
C13_Witness ==
    /\ vendor = CHECK_POINT
    /\ pc = "FETCH"
    /\ wroteOk # {}
    /\ cur # NoDoc

\* C14: a run whose discovered identities are all in the existing set goes
\* from the delta to its end: it dispatches no detail fetch and executes no
\* INSERT, and the table is as the run found it.
C14_EmptyDeltaShortCircuit ==
    (pc \notin {"idle", "CONNECT", "LOOKUP", "DISCOVER"} /\ discovered \subseteq existing)
       => /\ pc \in {"REPORT", "CRASHED"}
          /\ dispatched = {}
          /\ attempted = {}
          /\ store = runStartStore

\* Every discovered identity was staged already.
C14_Witness ==
    /\ pc = "REPORT"
    /\ lookupOk
    /\ discovered # {}
    /\ discovered \subseteq existing

\* C16: when a DO UPDATE script has written identities that had a row, the row
\* of each holds the payload of this run, and the table has grown by the
\* written identities that had no row only.
C16_UpsertReplace ==
    (pc = "REPORT" /\ ConflictAction(vendor) = "DO UPDATE")
       => /\ \A u \in wroteOk \cap Urls(runStartStore) :
                /\ \E r \in store : r.source_url = u
                /\ \A r \in store : r.source_url = u =>
                       r.raw_data.detail = result[u].detail
          /\ Cardinality(store) =
                Cardinality(runStartStore) + Cardinality(wroteOk \ Urls(runStartStore))

\* A DO UPDATE script has written an identity whose row held another payload.
C16_Witness ==
    /\ pc = "REPORT"
    /\ ConflictAction(vendor) = "DO UPDATE"
    /\ \E r \in runStartStore : /\ r.source_url \in wroteOk
                                /\ r.raw_data.detail # result[r.source_url].detail

\* C17: every row of the table, and every row of an open transaction, has
\* processed = FALSE.
C17_ProcessedNeverSet ==
    \A r \in store \cup tx : r.processed = FALSE

\* A DO UPDATE script has rewritten a row and inserted another one.
C17_Witness ==
    /\ pc = "REPORT"
    /\ ConflictAction(vendor) = "DO UPDATE"
    /\ wroteOk \cap Urls(runStartStore) # {}
    /\ wroteOk \ Urls(runStartStore) # {}

\* C15: a listing scan does not go on after a page that yielded no identity
\* absent from the (non-empty) existing set.
C15_ScanStopsAtOldPage ==
    ~(pc = "DISCOVER" /\ page > 0 /\ pageOld /\ existing # {})

\* C20: the page loop of fortinet_raw.py does not go on after a page that
\* yielded identities of which none was new to the scan.
C20_ScanStopsAtStalePage ==
    ~(pc = "DISCOVER" /\ vendor = FORTINET /\ page > 0 /\ pageStale)

\* C18: the number of detail fetches in flight never exceeds 10 for fedora and
\* jenkins, 8 for okta and 1 for the scripts that fetch in a loop, whatever
\* the size of the delta.
C18_BoundedConcurrency ==
    running <= (CASE vendor \in {FEDORA, JENKINS} -> 10
                  [] vendor = OKTA -> 8
                  [] OTHER -> 1)

\* okta's executor has all its workers fetching and more documents waiting.
C18_Witness ==
    /\ vendor = OKTA
    /\ running = 8
    /\ queue + todo > 0

\* C19: with the script of another vendor writing to the table at the same
\* time, the rows of this vendor are those it would have staged alone, and the
\* rows of the other vendor are those its own writes alone produce: no step of
\* either script changes or removes a row of the other.
C19_NoDestructiveConflict ==
    /\ {r \in store : r.vendor_name = vendor} = alone
    /\ {r \in store : r.vendor_name # vendor} = foreignAlone
    /\ {r \in tx : r.vendor_name = vendor} = aloneTx

\* Both scripts have staged a document, and this one wrote after the other.
C19_Witness ==
    /\ foreignAlone # {}
    /\ pc = "REPORT"
    /\ wroteOk # {}
    /\ \E r \in runStartStore : r.vendor_name = other

\* C25: every staged record holds at least one non-empty field besides the
\* identity: listing fields or detail content.
C25_NonEmptyRecord ==
    \A r \in store : r.raw_data.meta \/ r.raw_data.detail # 0

\* C26: in fetch_page_and_parse the loop has slept before every attempt after
\* the first, whatever made the attempt before it fail (a timeout, an error,
\* a client-side error marker).
C26_MarkerLikeTimeout ==
    (vendor = CHECK_POINT /\ pc = "FETCH" /\ cur # NoDoc /\ attempt > 0) => backoff

\* C27: no step of the fetch and extract of a document ends the run while a
\* document that was fetched and extracted is waiting to be staged, and in
\* checkpoint's loop nothing between the fetch and the insert of an advisory
\* ends the run.
C27_ErrorsDoNotEscape ==
    [][runner' = runner =>
          /\ pc = "FETCH" =>
                \/ pc' \in {"FETCH", "STAGE"}
                \/ (pc' = "REPORT" /\ \A u \in Names : result'[u].st # "ok")
          /\ (vendor = CHECK_POINT /\ pc = "STAGE") => pc' # "CRASHED"]_vars

\* C29: the count of inserted records a run logs at its end is the number of
\* identities the run added to the table.
C29_ReportedCountIsRowsAdded ==
    (pc = "REPORT" /\ report.staged # {})
       => report.staged = {Cardinality(NewlyStaged)}

\* C30: an identity that carries a detail reference and is in the existing
\* set of a run (so that the run does not fetch it) has no row made of its
\* listing fields alone: a failed detail fetch left it out of the table.
C30_FailedFetchNotInExisting ==
    \A u \in existing \cap sk :
       \A r \in store :
          (r.vendor_name = vendor /\ r.source_url = u)
             => r.raw_data # [meta |-> TRUE, detail |-> 0]

\* C21: a step in which the request for a listing page raises does not end
\* the scan of the listing.
C21_PageErrorDoesNotAbort ==
    [][(scanError' /\ ~scanError) => pc' = "DISCOVER"]_vars

\* C22: a script that fetches through a browser sets up at most one browser
\* session in a run, and none in a run that has no document to fetch.
C22_OneLazySession ==
    BrowserStrategy(vendor) => (setups <= 1 /\ (setups > 0 => deltaSize > 0))

\* C23: when the setup of a browser session fails the run is over, without a
\* detail fetch and without a staged record.
C23_SetupFailureIsFatal ==
    setupFailed => (phase \in {"done", "crashed"} /\ fetched = 0 /\ ~stagedAny)

\* C23, its case: checkpoint's launch failed in a run that had documents to
\* fetch.
C23_Witness ==
    /\ setupFailed
    /\ vendor = CHECK_POINT
    /\ deltaSize > 0
    /\ phase = "crashed"

\* C24: at the end of a run, however it ended, no connection and no browser
\* the run opened is still open.
C24_ReleasedOnEveryExit ==
    phase \in {"done", "crashed"} => (~connOpen /\ ~browserOpen)

\* C28: in one run no identity is fetched more than once and no identity is
\* handed to the staging write more than once, whatever the listing repeats.
C28_AtMostOncePerRun ==
    \A u \in Names : fetchCount[u] <= 1 /\ insertCount[u] <= 1

\* C31: every script of scripts_to_run the loop is done with was called once,
\* and a second time exactly when the first call failed, never a third time;
\* the log has exactly one line for it, SUCCESS exactly when the first call
\* succeeded, RETRY_SUCCESS exactly when the first failed and the second
\* succeeded, FAILED exactly when both failed; a script the loop has not
\* reached was not called; and the two counts of the summary add up to the
\* number of collected scripts.
C31_RetryProtocol ==
    /\ \A s \in 1..scripts_to_run :
          LET lines == {i \in 1..Len(log) : log[i].script = s}
              done == s < at \/ jg \in {"nvd1", "nvd2", "summary", "end"}
          IN  /\ Len(execs[s]) <= 2
              /\ s > at => execs[s] = <<>>
              /\ ~done => lines = {}
              /\ done =>
                    /\ Len(execs[s]) >= 1
                    /\ Len(execs[s]) = 2 <=> ~execs[s][1]
                    /\ Cardinality(lines) = 1
                    /\ \A i \in lines :
                          /\ log[i].status = "SUCCESS" <=> execs[s][1]
                          /\ log[i].status = "RETRY_SUCCESS"
                                <=> (~execs[s][1] /\ execs[s][2])
                          /\ log[i].status = "FAILED"
                                <=> (~execs[s][1] /\ ~execs[s][2])
    /\ jg # "dead"
    /\ jg = "end" => summary[1] + summary[2] = scripts_to_run

\* C31, its case: jg.py is at its end after a run in which one script
\* succeeded at once, one on the retry and one failed twice.
C31_Witness ==
    /\ jg = "end"
    /\ scripts_to_run >= 3
    /\ \E i, j, k \in 1..Len(log) :
          /\ log[i].status = "SUCCESS" /\ log[i].script > 0
          /\ log[j].status = "RETRY_SUCCESS"
          /\ log[k].status = "FAILED" /\ log[k].script > 0
    /\ summary = <<2, 1>>

\* C32: when a DO UPDATE script has written identities that had a row at the
\* start of the run, the row of each has the vendor name and the processed
\* flag it had then.
C32_UpsertKeepsVendorAndFlag ==
    (pc = "REPORT" /\ ConflictAction(vendor) = "DO UPDATE")
       => \A r0 \in runStartStore :
             r0.source_url \in wroteOk
                => \E r \in store : /\ r.source_url = r0.source_url
                                    /\ r.vendor_name = r0.vendor_name
                                    /\ r.processed = r0.processed

\* C33: at the end of a run of a script that writes record by record, every
\* record whose INSERT raised no error has a row in the table.
C33_LaterWritesSurvive ==
    (pc = "REPORT" /\ vendor \in {CHECK_POINT, JUNIPER})
       => wroteOk \subseteq StagedFor(store, vendor)

\* C34: in a script that reads the existing identities and writes the batch
\* on one connection, the staging write of a run whose lookup query failed
\* succeeds when the statement itself does not fail.
C34_FailedLookupDoesNotFailWrite ==
    (/\ vendor \in {FEDORA, JENKINS, OKTA}
     /\ pc = "STAGE"
     /\ ~lookupOk
     /\ BatchOf(vendor, discovered, existing, result) # {})
       => ENABLED (BulkWrite(TRUE) /\ wroteOk' # {})
====
